---- MODULE Spec2Model ----
(***************************************************************************)
(* State-machine model of the VideoRecorder component                      *)
(* (src/src/components/VideoRecorder.tsx): the React state and refs of the *)
(* component, the browser objects it drives (MediaStream, MediaRecorder),  *)
(* the promises it awaits (getUserMedia, the storage upload) and the       *)
(* storage bucket it writes to.                                            *)
(*                                                                         *)
(* Two specifications:                                                     *)
(*   Spec        the component as rendered: the handlers run only through  *)
(*               the buttons the JSX renders and enables (lines 157-192);  *)
(*   SpecDirect  the handlers invoked in any state (the button guards      *)
(*               dropped), used for the claims about what a handler does   *)
(*               when it is called outside the state its button implies.   *)
(* FairSpec adds to Spec the fairness of the event loop: a pending promise *)
(* settles and a queued recorder task runs; the user's clicks are not fair.*)
(*                                                                         *)
(* Every step is one turn of the browser's event loop: a click handler up  *)
(* to its first await, the continuation of an await, or a recorder event   *)
(* callback.  A handler reads the state of the latest render, which is     *)
(* taken to be the current state (React re-renders before the next click). *)
(* The component stays mounted, so videoRef.current is never null after    *)
(* the mount effect.                                                       *)
(***************************************************************************)
EXTENDS Integers, Sequences, FiniteSets, TLC

\* ---------------------------------------------------------------- bounds
MaxStreams == 3      \* streams getUserMedia hands out in one run
MaxRecorders == 2    \* MediaRecorder objects started in one run
MaxSegs == 1         \* timeslice deliveries per recorder (the final one comes on top)
MaxSize == 1         \* largest segment size; 0 is the empty segment
MaxPending == 1      \* getUserMedia calls pending at once, per caller
MaxNames == 1        \* object names the name generator may produce
MaxInflight == 1     \* storage writes in flight at once

Recorders == 1..MaxRecorders
Sizes == 0..MaxSize
Names == 1..MaxNames
Origins == {"mount", "start", "upload"}

\* ---------------------------------------------------------------- values
\* A segment delivered by a recorder: which recorder, its position in that
\* recorder's deliveries, and its byte length.
Segment(r, k, n) == [rec |-> r, idx |-> k, size |-> n]

\* new Blob(chunks): identified by the recorder whose onstop built it; the
\* null artifact is NoBlob (rec = 0).  An empty Blob is not null.
NoBlob == [rec |-> 0, data |-> <<>>]
MakeBlob(r, chunks) == [rec |-> r, data |-> chunks]

RECURSIVE SumSizes(_)
SumSizes(s) == IF s = <<>> THEN 0 ELSE Head(s).size + SumSizes(Tail(s))

BlobSize(b) == SumSizes(b.data)

\* The status line: the message kind and the value interpolated into it
\* (blob size, file name, error message id; 0 when the text is fixed).
Msg(kind, arg) == [kind |-> kind, arg |-> arg]

\* error.message of a failed upload: 1 = the storage service's error
\* (e.g. the object already exists), 2 = the upload call threw,
\* 3 = public-URL resolution threw.
ErrStorage == 1
ErrThrown == 2
ErrUrl == 3

VARIABLES
    srcObject,          \* videoRef.current.srcObject: 0 = null, else a stream
    acquired,           \* number of streams getUserMedia has handed out
    liveStreams,        \* streams that still have live tracks
    mediaRecorderRef,   \* mediaRecorderRef.current: 0 = null, else a recorder
    recState,           \* per recorder: "none", "recording", "stopping", "inactive"
    recStream,          \* per recorder: the stream passed to its constructor
    recordedChunksRef,  \* recordedChunksRef.current
    delivered,          \* per recorder: every segment its dataavailable delivered
    isRecording,
    videoBlob,
    statusMessage,
    uploading,
    pendingAcquire,     \* per caller: getUserMedia promises not yet settled
    inflight,           \* storage writes not yet settled
    storage,            \* bucket "videos": name -> stored blob (NoBlob = absent)
    lastOp              \* the handler or callback that ran last

progVars == <<srcObject, mediaRecorderRef, recordedChunksRef, isRecording,
              videoBlob, statusMessage, uploading>>
envVars == <<acquired, liveStreams, recState, recStream, delivered,
             pendingAcquire, inflight, storage>>
vars == <<srcObject, acquired, liveStreams, mediaRecorderRef, recState, recStream,
          recordedChunksRef, delivered, isRecording, videoBlob, statusMessage,
          uploading, pendingAcquire, inflight, storage, lastOp>>

\* ---------------------------------------------------------------- Init
\* The component after its first render and mount effect: the useState/useRef
\* initial values, and the getUserMedia call of the mount effect pending.
Init ==
    /\ srcObject = 0
    /\ acquired = 0
    /\ liveStreams = {}
    /\ mediaRecorderRef = 0
    /\ recState = [r \in Recorders |-> "none"]
    /\ recStream = [r \in Recorders |-> 0]
    /\ recordedChunksRef = <<>>
    /\ delivered = [r \in Recorders |-> <<>>]
    /\ isRecording = FALSE
    /\ videoBlob = NoBlob
    /\ statusMessage = Msg("Ready", 0)
    /\ uploading = FALSE
    /\ pendingAcquire = [o \in Origins |-> IF o = "mount" THEN 1 ELSE 0]
    /\ inflight = {}
    /\ storage = [n \in Names |-> NoBlob]
    /\ lastOp = [op |-> "mount", origin |-> "", id |-> 0]

Op(op, origin, id) == [op |-> op, origin |-> origin, id |-> id]

\* ---------------------------------------------------------------- helpers
\* The recorder object the next `new MediaRecorder` creates.
FreeRecorders == {r \in Recorders : recState[r] = "none"}
NextRecorder == CHOOSE r \in FreeRecorders : \A q \in FreeRecorders : r <= q

\* A recording session: a started MediaRecorder whose onstop has not run.
ActiveRecorders == {r \in Recorders : recState[r] \in {"recording", "stopping"}}

\* ondataavailable (lines 60-64): only a non-empty segment is buffered.
PushChunk(chunks, seg) == IF seg.size > 0 THEN Append(chunks, seg) ELSE chunks

\* onstop without its line 74: the stream's tracks are left running.
StopTracks_NotReleased(stream, live) == live

\* onstop, line 74: stream.getTracks().forEach(track => track.stop()).
StopTracks(stream, live) == live \ {stream}

\* stopRecording's condition without its isRecording conjunct.
StopAllowed_RefOnly == mediaRecorderRef # 0

\* stopRecording's condition, line 93.
StopAllowed == mediaRecorderRef # 0 /\ isRecording

\* handleUpload without its early return.
UploadRejected_Never == FALSE

\* handleUpload's early return, line 102.
UploadRejected == videoBlob = NoBlob

\* A catch block of startStream that also drops a released stream from the
\* preview sink.
SinkAfterAcquireFailure_Cleared == IF srcObject \in liveStreams THEN srcObject ELSE 0

\* What the catch block of startStream does to the preview sink (lines 31-35):
\* nothing.
SinkAfterAcquireFailure == srcObject

\* An upload success branch that forgets to clear the artifact.
ArtifactAfterUploadSuccess_Kept == videoBlob

\* The artifact after a successful upload, line 131: setVideoBlob(null).
ArtifactAfterUploadSuccess == NoBlob

\* The button guards of the JSX.
StartButtonEnabled == ~isRecording /\ ~uploading                       \* 157-164
StopButtonShown == isRecording                                         \* 157, 166-171
UploadButtonEnabled == videoBlob # NoBlob /\ ~isRecording /\ ~uploading \* 175-178

\* ---------------------------------------------------------------- startRecording
\* A try block that calls setIsRecording(true) before the call that throws.
RecordingAfterStartFailure_Set == TRUE

\* isRecording after the catch block of startRecording (lines 83-86): the
\* throw comes before setIsRecording(true) on line 79, so it is untouched.
RecordingAfterStartFailure == isRecording

\* The try block of startRecording (lines 54-86) on `stream`.  The browser
\* decides the outcome: the constructor throws (unsupported mimeType), start()
\* throws (after the buffer was reset on line 59), or the recorder starts.
TryStartRecorder(stream, outcome) ==
    IF outcome = "ctorThrow"
    THEN /\ statusMessage' = Msg("StartError", 0)
         /\ isRecording' = RecordingAfterStartFailure
         /\ UNCHANGED <<mediaRecorderRef, recState, recStream, recordedChunksRef,
                        delivered, videoBlob>>
    ELSE IF outcome = "startThrow"
    THEN /\ recordedChunksRef' = <<>>
         /\ statusMessage' = Msg("StartError", 0)
         /\ isRecording' = RecordingAfterStartFailure
         /\ UNCHANGED <<mediaRecorderRef, recState, recStream, delivered,
                        videoBlob>>
    ELSE /\ FreeRecorders # {}
         /\ recordedChunksRef' = <<>>
         /\ recState' = [recState EXCEPT ![NextRecorder] = "recording"]
         /\ recStream' = [recStream EXCEPT ![NextRecorder] = stream]
         /\ mediaRecorderRef' = NextRecorder
         /\ isRecording' = TRUE
         /\ videoBlob' = NoBlob
         /\ statusMessage' = Msg("Recording", 0)
         /\ UNCHANGED delivered

StartOutcomes == {"ok", "ctorThrow", "startThrow"}

\* startRecording up to its first suspension (lines 45-88): with a stream on
\* the preview sink it runs the try block at once; without one it sets the
\* retry status and awaits startStream().
StartRecording(outcome) ==
    /\ IF srcObject # 0
       THEN /\ TryStartRecorder(srcObject, outcome)
            /\ UNCHANGED pendingAcquire
       ELSE /\ pendingAcquire["start"] < MaxPending
            /\ statusMessage' = Msg("StreamRetry", 0)
            /\ pendingAcquire' = [pendingAcquire EXCEPT !["start"] = @ + 1]
            /\ UNCHANGED <<mediaRecorderRef, recState, recStream, recordedChunksRef,
                           delivered, isRecording, videoBlob>>
    /\ lastOp' = Op("startRecording", "", 0)
    /\ UNCHANGED <<srcObject, acquired, liveStreams, uploading, inflight, storage>>

\* ---------------------------------------------------------------- startStream
\* A startRecording that keeps the stream it read on line 46 after the await.
RecorderStreamAfterAcquire_Stale(newStream) == srcObject

\* The stream startRecording records after its implicit acquisition,
\* line 51: stream = newStream.
RecorderStreamAfterAcquire(newStream) == newStream

\* getUserMedia resolves for the startStream() call made by `o` (lines 20-29):
\* the new stream goes to the preview sink.  For the call made by
\* startRecording the await on line 49 resumes in the same turn of the event
\* loop (promise continuations only), so lines 50-86 belong to this step.
AcquireSucceeds(o, outcome) ==
    /\ pendingAcquire[o] > 0
    /\ acquired < MaxStreams
    /\ pendingAcquire' = [pendingAcquire EXCEPT ![o] = @ - 1]
    /\ acquired' = acquired + 1
    /\ liveStreams' = liveStreams \cup {acquired + 1}
    /\ srcObject' = acquired + 1
    /\ IF o = "start"
       THEN TryStartRecorder(RecorderStreamAfterAcquire(acquired + 1), outcome)
       ELSE /\ statusMessage' = Msg("StreamActive", 0)
            /\ UNCHANGED <<mediaRecorderRef, recState, recStream, recordedChunksRef,
                           delivered, isRecording, videoBlob>>
    /\ lastOp' = Op("acquireOk", o, acquired + 1)
    /\ UNCHANGED <<uploading, inflight, storage>>

\* getUserMedia rejects (lines 31-35): the error status, and startStream
\* returns null, on which startRecording returns (line 50).
AcquireFails(o) ==
    /\ pendingAcquire[o] > 0
    /\ pendingAcquire' = [pendingAcquire EXCEPT ![o] = @ - 1]
    /\ statusMessage' = Msg("StreamError", 0)
    /\ srcObject' = SinkAfterAcquireFailure
    /\ lastOp' = Op("acquireFail", o, 0)
    /\ UNCHANGED <<acquired, liveStreams, mediaRecorderRef, recState, recStream,
                   recordedChunksRef, delivered, isRecording, videoBlob, uploading,
                   inflight, storage>>

\* ---------------------------------------------------------------- recorder events
\* A timeslice dataavailable event of a recording recorder (lines 60-64).
DataAvailable(r, n) ==
    /\ recState[r] = "recording"
    /\ Len(delivered[r]) < MaxSegs
    /\ LET seg == Segment(r, Len(delivered[r]) + 1, n) IN
         /\ recordedChunksRef' = PushChunk(recordedChunksRef, seg)
         /\ delivered' = [delivered EXCEPT ![r] = Append(@, seg)]
    /\ lastOp' = Op("dataavailable", "", r)
    /\ UNCHANGED <<srcObject, acquired, liveStreams, mediaRecorderRef, recState,
                   recStream, isRecording, videoBlob, statusMessage, uploading,
                   pendingAcquire, inflight, storage>>

\* The task the browser queues when a recorder stops: the final dataavailable
\* (lines 60-64) and then onstop (lines 66-75).
Finalize(r, n, cause) ==
    LET seg == Segment(r, Len(delivered[r]) + 1, n)
        chunks == PushChunk(recordedChunksRef, seg)
        blob == MakeBlob(r, chunks)
    IN  /\ recordedChunksRef' = chunks
        /\ delivered' = [delivered EXCEPT ![r] = Append(@, seg)]
        /\ videoBlob' = blob
        /\ isRecording' = FALSE
        /\ statusMessage' = Msg("Finished", BlobSize(blob))
        /\ liveStreams' = StopTracks(recStream[r], liveStreams)
        /\ recState' = [recState EXCEPT ![r] = "inactive"]
        /\ lastOp' = Op("onstop", cause, r)
        /\ UNCHANGED <<srcObject, acquired, mediaRecorderRef, recStream, uploading,
                       pendingAcquire, inflight, storage>>

\* The stop task of a recorder on which stop() was called.
StopTask(r, n) ==
    /\ recState[r] = "stopping"
    /\ Finalize(r, n, "stop")

\* The browser stops a recorder by itself when every track of its stream has
\* ended; it may do so at any time after the tracks were stopped.
TracksEnded(r, n) ==
    /\ recState[r] = "recording"
    /\ recStream[r] \notin liveStreams
    /\ Finalize(r, n, "ended")

\* ---------------------------------------------------------------- stopRecording
\* stopRecording (lines 92-97).  stop() on a recorder that is no longer
\* recording changes nothing.
StopRecording ==
    /\ IF StopAllowed /\ recState[mediaRecorderRef] = "recording"
       THEN recState' = [recState EXCEPT ![mediaRecorderRef] = "stopping"]
       ELSE UNCHANGED recState
    /\ lastOp' = Op("stopRecording", "", 0)
    /\ UNCHANGED <<srcObject, acquired, liveStreams, mediaRecorderRef, recStream,
                   recordedChunksRef, delivered, isRecording, videoBlob,
                   statusMessage, uploading, pendingAcquire, inflight, storage>>

\* ---------------------------------------------------------------- handleUpload
\* The bucket every write goes to, line 118: .from('videos').
Bucket == "videos"

\* An upload call that lets the service overwrite.
Upsert_Overwrite == TRUE

\* The upsert option of the upload call, line 121.
Upsert == FALSE

\* The storage service accepts a write under `name` when the name is free or
\* the call asked for upsert; otherwise it returns an error.
WriteAccepted(name) == Upsert \/ storage[name] = NoBlob

FreeUploadIds == (1..MaxInflight) \ {u.id : u \in inflight}

\* handleUpload up to its await (lines 101-122): rejected without an artifact;
\* otherwise Uploading, and the write of the artifact under the generated
\* name `nm` is issued to the bucket.
HandleUpload(nm) ==
    /\ IF UploadRejected
       THEN /\ statusMessage' = Msg("NoVideo", 0)
            /\ UNCHANGED <<uploading, inflight>>
       ELSE /\ FreeUploadIds # {}
            /\ uploading' = TRUE
            /\ statusMessage' = Msg("Uploading", 0)
            /\ inflight' = inflight \cup
                 {[id |-> CHOOSE i \in FreeUploadIds : \A j \in FreeUploadIds : i <= j,
                   bucket |-> Bucket, blob |-> videoBlob, name |-> nm]}
    /\ lastOp' = Op("handleUpload", "", 0)
    /\ UNCHANGED <<srcObject, acquired, liveStreams, mediaRecorderRef, recState,
                   recStream, recordedChunksRef, delivered, isRecording, videoBlob,
                   pendingAcquire, storage>>

\* The write succeeds and the public URL resolves (lines 117-133): the object
\* is stored (upsert: false, so only under a free name), the artifact cleared,
\* Uploading left, and startStream() called again.
UploadSucceeds(u) ==
    /\ u \in inflight
    /\ WriteAccepted(u.name)
    /\ pendingAcquire["upload"] < MaxPending
    /\ inflight' = inflight \ {u}
    /\ storage' = [storage EXCEPT ![u.name] = u.blob]
    /\ statusMessage' = Msg("UploadOK", u.name)
    /\ videoBlob' = ArtifactAfterUploadSuccess
    /\ uploading' = FALSE
    /\ pendingAcquire' = [pendingAcquire EXCEPT !["upload"] = @ + 1]
    /\ lastOp' = Op("uploadOk", "", u.id)
    /\ UNCHANGED <<srcObject, acquired, liveStreams, mediaRecorderRef, recState,
                   recStream, recordedChunksRef, delivered, isRecording>>

\* What the failed call reported, as a word.
ErrCause(err) ==
    IF err = ErrStorage THEN "storage" ELSE IF err = ErrThrown THEN "thrown" ELSE "url"

\* A catch block without its setUploading(false).
UploadingAfterFailure_Stuck == uploading

\* The uploading flag after the catch block, line 137: setUploading(false).
UploadingAfterFailure == FALSE

\* A catch block that issues the write again.
WritesAfterFailure_Retry(u) == inflight

\* The writes in flight after the catch block (lines 135-139): the failed one
\* is over and nothing is issued in its place.
WritesAfterFailure(u) == inflight \ {u}

\* The write fails (lines 124-126, 135-139): the service returns an error
\* (always so when the name is taken), the call throws, or the write succeeds
\* and the public-URL resolution throws.
UploadFails(u, err) ==
    /\ u \in inflight
    /\ err = ErrUrl => WriteAccepted(u.name)
    /\ inflight' = WritesAfterFailure(u)
    /\ storage' = IF err = ErrUrl THEN [storage EXCEPT ![u.name] = u.blob] ELSE storage
    /\ statusMessage' = Msg("UploadFailed", err)
    /\ uploading' = UploadingAfterFailure
    /\ lastOp' = Op("uploadFail", ErrCause(err), u.id)
    /\ UNCHANGED <<srcObject, acquired, liveStreams, mediaRecorderRef, recState,
                   recStream, recordedChunksRef, delivered, isRecording, videoBlob,
                   pendingAcquire>>

\* ---------------------------------------------------------------- specifications
\* What the browser and the network do.
Environment ==
    \/ \E o \in Origins, outcome \in StartOutcomes : AcquireSucceeds(o, outcome)
    \/ \E o \in Origins : AcquireFails(o)
    \/ \E r \in Recorders, n \in Sizes : DataAvailable(r, n)
    \/ \E r \in Recorders, n \in Sizes : StopTask(r, n)
    \/ \E r \in Recorders, n \in Sizes : TracksEnded(r, n)
    \/ \E u \in inflight : UploadSucceeds(u)
    \/ \E u \in inflight, err \in {ErrStorage, ErrThrown, ErrUrl} : UploadFails(u, err)

\* The user's clicks on the rendered buttons.
ClickStart == StartButtonEnabled /\ \E outcome \in StartOutcomes : StartRecording(outcome)
ClickStop == StopButtonShown /\ StopRecording
ClickUpload == UploadButtonEnabled /\ \E nm \in Names : HandleUpload(nm)

Next == ClickStart \/ ClickStop \/ ClickUpload \/ Environment

Spec == Init /\ [][Next]_vars

\* The handlers called in any state.
CallStart == \E outcome \in StartOutcomes : StartRecording(outcome)
CallStop == StopRecording
CallUpload == \E nm \in Names : HandleUpload(nm)

NextDirect == CallStart \/ CallStop \/ CallUpload \/ Environment

SpecDirect == Init /\ [][NextDirect]_vars

TypeOK ==
    /\ srcObject \in 0..MaxStreams
    /\ acquired \in 0..MaxStreams
    /\ liveStreams \subseteq 1..acquired
    /\ mediaRecorderRef \in 0..MaxRecorders
    /\ \A r \in Recorders : recState[r] \in {"none", "recording", "stopping", "inactive"}
    /\ isRecording \in BOOLEAN
    /\ uploading \in BOOLEAN
    /\ \A o \in Origins : pendingAcquire[o] \in 0..MaxPending
    /\ Cardinality(inflight) <= MaxInflight

\* The event loop is fair to what is already queued: a pending getUserMedia
\* promise settles, a pending storage write settles, a queued stop task runs.
\* Nothing obliges the user to click.
AcquireSettles ==
    \/ \E o \in Origins : AcquireFails(o)
    \/ \E o \in Origins, outcome \in StartOutcomes : AcquireSucceeds(o, outcome)

UploadSettles ==
    \/ \E v \in inflight : UploadSucceeds(v)
    \/ \E v \in inflight, err \in {ErrStorage, ErrThrown, ErrUrl} : UploadFails(v, err)

FairSpec ==
    /\ Spec
    /\ WF_vars(AcquireSettles)
    /\ WF_vars(UploadSettles)
    /\ WF_vars(\E r \in Recorders, n \in Sizes : StopTask(r, n))

\* ---------------------------------------------------------------- controller states
Recording == isRecording
Uploading == uploading
Recorded == ~isRecording /\ videoBlob # NoBlob

\* ---------------------------------------------------------------- claims
\* C1: in every reachable state, Uploading or Recorded implies a non-null
\* artifact, and Recording implies an active recording session and no artifact.
C1_StateInvariant ==
    /\ (Uploading \/ Recorded) => videoBlob # NoBlob
    /\ Recording => (ActiveRecorders # {} /\ videoBlob = NoBlob)

\* C2: at most one recording session (a started recorder whose stop callback
\* has not fired) is active at any time.
C2_AtMostOneSession == Cardinality(ActiveRecorders) <= 1

\* C3: when a recording is finalized, the one artifact it produces has a byte
\* length equal to the sum of the lengths of the segments delivered to that
\* recording between its start and its finalization.
C3_ArtifactSizeIsSumOfSegments ==
    [][\A r \in Recorders :
         (recState[r] # "inactive" /\ recState'[r] = "inactive")
            => /\ videoBlob' # NoBlob
               /\ BlobSize(videoBlob') = SumSizes(delivered'[r])]_vars

\* C4: when an upload fails, the artifact that was being uploaded is still
\* held, the controller is Recorded (not Uploading, not Recording) and the
\* status shows the failure.
C4_FailedUploadKeepsArtifact ==
    [][\A u \in inflight :
         (lastOp'.op = "uploadFail" /\ lastOp'.id = u.id /\ u \notin inflight')
            => /\ videoBlob' = u.blob
               /\ videoBlob' # NoBlob
               /\ ~uploading'
               /\ ~isRecording'
               /\ statusMessage'.kind = "UploadFailed"]_vars

\* C5 as stated: after a successful upload the controller eventually holds a
\* stream acquired after that upload, with live tracks, bound to the preview
\* sink, with no artifact and not uploading.
C5_EventuallyStreamReady ==
    \A k \in 0..MaxStreams :
        (lastOp.op = "uploadOk" /\ acquired = k)
            ~> (srcObject > k /\ srcObject \in liveStreams
                /\ videoBlob = NoBlob /\ ~uploading)

\* C5 amended: a successful upload clears the artifact, leaves Uploading and
\* issues a stream acquisition; when an acquisition issued by an upload
\* succeeds, the preview sink is bound to the stream just acquired, whose
\* tracks are live.
C5_UploadSuccessReacquires ==
    [][/\ lastOp'.op = "uploadOk"
          => /\ videoBlob' = NoBlob
             /\ ~uploading'
             /\ pendingAcquire'["upload"] = pendingAcquire["upload"] + 1
       /\ (lastOp'.op = "acquireOk" /\ lastOp'.origin = "upload")
          => /\ srcObject' = acquired'
             /\ srcObject' \notin 1..acquired
             /\ srcObject' \in liveStreams'
             /\ pendingAcquire'["upload"] = pendingAcquire["upload"] - 1]_vars

\* The stream re-acquired after a successful upload is on the preview sink.
C5_Witness ==
    /\ lastOp.op = "acquireOk" /\ lastOp.origin = "upload"
    /\ srcObject = acquired
    /\ srcObject \in liveStreams
    /\ videoBlob = NoBlob
    /\ \E n \in Names : storage[n] # NoBlob

\* C6: in every reachable state no stream with live tracks exists other than
\* the one bound to the preview sink.
C6_NoLiveStreamBesidesSink == \A s \in liveStreams : s = srcObject

\* C7: when a recording stopped by stopRecording is finalized, the controller
\* is Recorded with a non-null artifact and every track of the stream the
\* recorder was bound to is stopped.
C7_FinalizeReleasesStream ==
    (lastOp.op = "onstop" /\ lastOp.origin = "stop")
        => /\ Recorded
           /\ videoBlob # NoBlob
           /\ recStream[lastOp.id] \notin liveStreams
           /\ recState[lastOp.id] = "inactive"

C7_Witness ==
    /\ lastOp.op = "onstop" /\ lastOp.origin = "stop"
    /\ Recorded
    /\ recStream[lastOp.id] \notin liveStreams
    /\ SumSizes(delivered[lastOp.id]) > 0

\* C8: stopRecording invoked when the controller is not Recording
\* (isRecording false, or no recorder ever created) changes nothing.
C8_StopOutsideRecordingIsNoOp ==
    [][(lastOp'.op = "stopRecording" /\ (~isRecording \/ mediaRecorderRef = 0))
          => UNCHANGED <<progVars, envVars>>]_vars

\* A stop call that arrived with isRecording false while the recorder in
\* mediaRecorderRef was still recording.
C8_Witness ==
    /\ lastOp.op = "stopRecording"
    /\ ~isRecording
    /\ mediaRecorderRef # 0
    /\ recState[mediaRecorderRef] = "recording"

\* C9: handleUpload invoked with no artifact issues no storage write, does not
\* enter Uploading and changes only the status, to the no-video message.
C9_UploadWithoutArtifactRejected ==
    [][(lastOp'.op = "handleUpload" /\ videoBlob = NoBlob)
          => /\ statusMessage' = Msg("NoVideo", 0)
             /\ inflight' = inflight
             /\ uploading' = uploading
             /\ UNCHANGED <<srcObject, mediaRecorderRef, recordedChunksRef,
                            isRecording, videoBlob, envVars>>]_vars

C9_Witness ==
    /\ lastOp.op = "handleUpload"
    /\ statusMessage = Msg("NoVideo", 0)
    /\ videoBlob = NoBlob
    /\ inflight = {}

\* C10: a failed stream acquisition sets the error status and changes nothing
\* else: isRecording, uploading, the artifact, the recorder and the preview
\* sink's stream are unchanged.
C10_AcquireFailureOnlySetsStatus ==
    [][lastOp'.op = "acquireFail"
          => /\ statusMessage' = Msg("StreamError", 0)
             /\ UNCHANGED <<srcObject, mediaRecorderRef, recordedChunksRef,
                            isRecording, videoBlob, uploading, acquired,
                            liveStreams, recState, recStream, delivered,
                            inflight, storage>>]_vars

\* The acquisition made by startRecording failed while the sink held a stream.
C10_Witness ==
    /\ lastOp = Op("acquireFail", "start", 0)
    /\ statusMessage = Msg("StreamError", 0)
    /\ srcObject # 0
    /\ ~isRecording

\* C11 as stated: startRecording without a stream awaits an acquisition; when
\* it succeeds a recording session is bound to the new stream and the
\* controller is Recording; when it fails no session is created and the
\* controller is not Recording, its artifact unchanged.
C11_ImplicitAcquireThenRecording ==
    [][/\ (lastOp'.op = "startRecording" /\ srcObject = 0)
          => /\ pendingAcquire'["start"] = pendingAcquire["start"] + 1
             /\ recState' = recState
       /\ (lastOp'.op = "acquireOk" /\ lastOp'.origin = "start")
          => /\ isRecording'
             /\ mediaRecorderRef' # 0
             /\ recState[mediaRecorderRef'] = "none"
             /\ recState'[mediaRecorderRef'] = "recording"
             /\ recStream'[mediaRecorderRef'] = acquired'
       /\ (lastOp'.op = "acquireFail" /\ lastOp'.origin = "start")
          => /\ recState' = recState
             /\ ~isRecording'
             /\ videoBlob' = videoBlob]_vars

\* C11 amended: when the implicit acquisition succeeds, either the recorder
\* starts (a new session bound to the new stream, controller Recording) or
\* constructing/starting it throws (no session, isRecording and the artifact
\* unchanged, start-error status); when it fails, no session is created and
\* isRecording, the recorder reference and the artifact are unchanged.
C11_ImplicitAcquireOutcomes ==
    [][/\ (lastOp'.op = "startRecording" /\ srcObject = 0)
          => /\ pendingAcquire'["start"] = pendingAcquire["start"] + 1
             /\ recState' = recState
             /\ UNCHANGED <<isRecording, videoBlob, mediaRecorderRef>>
       /\ (lastOp'.op = "acquireOk" /\ lastOp'.origin = "start")
          => /\ srcObject' = acquired' /\ acquired' = acquired + 1
             /\ \/ /\ isRecording'
                   /\ mediaRecorderRef' # 0
                   /\ recState[mediaRecorderRef'] = "none"
                   /\ recState'[mediaRecorderRef'] = "recording"
                   /\ recStream'[mediaRecorderRef'] = acquired'
                   /\ statusMessage' = Msg("Recording", 0)
                \/ /\ recState' = recState
                   /\ statusMessage' = Msg("StartError", 0)
                   /\ UNCHANGED <<isRecording, videoBlob, mediaRecorderRef>>
       /\ (lastOp'.op = "acquireFail" /\ lastOp'.origin = "start")
          => /\ recState' = recState
             /\ UNCHANGED <<isRecording, videoBlob, mediaRecorderRef>>]_vars

\* The implicit acquisition succeeded and the session records the new stream.
C11_Witness ==
    /\ lastOp.op = "acquireOk" /\ lastOp.origin = "start"
    /\ isRecording
    /\ mediaRecorderRef # 0
    /\ recState[mediaRecorderRef] = "recording"
    /\ recStream[mediaRecorderRef] = srcObject
    /\ srcObject = acquired

\* C12: startRecording invoked while the controller is Recording is rejected:
\* the active session, its buffered segments, the recorder reference and the
\* controller state are unchanged and no second session is created.
C12_StartWhileRecordingRejected ==
    [][(lastOp'.op = "startRecording" /\ isRecording)
          => /\ recState' = recState
             /\ UNCHANGED <<recordedChunksRef, mediaRecorderRef, recStream,
                            isRecording, videoBlob, uploading>>]_vars

\* C13: every write goes to the bucket "videos" and never overwrites: an
\* object stored under a name is never replaced, and a write whose name is
\* already taken ends on the upload-failure path.
C13_WritesNeverOverwrite ==
    [][/\ \A n \in Names : storage[n] # NoBlob => storage'[n] = storage[n]
       /\ \A u \in inflight :
            (u \notin inflight' /\ storage[u.name] # NoBlob)
               => /\ lastOp'.op = "uploadFail" /\ lastOp'.id = u.id
                  /\ statusMessage'.kind = "UploadFailed"
                  /\ ~uploading'
       /\ \A u \in inflight' : u.bucket = "videos"]_vars

\* An upload of a second artifact failed with every name already taken by
\* another artifact.
C13_Witness ==
    /\ lastOp.op = "uploadFail"
    /\ statusMessage = Msg("UploadFailed", ErrStorage)
    /\ videoBlob # NoBlob
    /\ \A n \in Names : storage[n] # NoBlob /\ storage[n].rec # videoBlob.rec

\* C14: no retry.  A write is issued only by an invocation of handleUpload
\* with an artifact, exactly one per invocation; a failed write is over and
\* nothing is issued in its place; the failure status carries the error
\* message of the failed call.
C14_NoRetry ==
    [][/\ (lastOp'.op = "handleUpload" /\ videoBlob # NoBlob)
          => /\ inflight \subseteq inflight'
             /\ Cardinality(inflight') = Cardinality(inflight) + 1
             /\ \A u \in inflight' \ inflight : u.blob = videoBlob
       /\ lastOp'.op # "handleUpload" => inflight' \subseteq inflight
       /\ lastOp'.op = "uploadFail"
          => /\ Cardinality(inflight') = Cardinality(inflight) - 1
             /\ ~uploading'
             /\ statusMessage'.kind = "UploadFailed"
             /\ ErrCause(statusMessage'.arg) = lastOp'.origin
             /\ statusMessage'.arg \in {ErrStorage, ErrThrown, ErrUrl}]_vars

\* A write failed with the service's error and nothing is in flight.
C14_Witness ==
    /\ lastOp.op = "uploadFail" /\ lastOp.origin = "storage"
    /\ statusMessage = Msg("UploadFailed", ErrStorage)
    /\ inflight = {}
    /\ ~uploading
    /\ videoBlob # NoBlob

\* C15: Uploading is transient.  Every way the storage call settles (write
\* success, write error, an exception from the write or from the public-URL
\* resolution) leaves Uploading, and, the pending call settling eventually,
\* a controller that is Uploading eventually is not.
C15_UploadingIsTransient ==
    /\ [][lastOp'.op \in {"uploadOk", "uploadFail"} => ~uploading']_vars
    /\ [](uploading => inflight # {})
    /\ uploading ~> ~uploading

\* Uploading was left through an exception of the public-URL resolution.
C15_Witness ==
    /\ lastOp.op = "uploadFail" /\ lastOp.origin = "url"
    /\ ~uploading
    /\ inflight = {}

\* C16: when an acquisition succeeds (at mount, inside startRecording or
\* after an upload), the preview sink is bound to the stream just acquired,
\* whose tracks are live, and no artifact is present.
C16_AcquiredStreamOnSinkNoArtifact ==
    lastOp.op = "acquireOk"
        => /\ srcObject = lastOp.id
           /\ srcObject = acquired
           /\ srcObject \in liveStreams
           /\ videoBlob = NoBlob

\* C17: when constructing or starting the recorder throws inside
\* startRecording, the catch block sets the start-error status; the
\* controller does not enter Recording, the recorder reference is not
\* replaced, the artifact is retained, no session exists that did not before,
\* and nothing is issued again.
C17_StartFailureCaught ==
    [][(lastOp'.op \in {"startRecording", "acquireOk"}
         /\ statusMessage'.kind = "StartError")
          => /\ statusMessage' = Msg("StartError", 0)
             /\ recState' = recState
             /\ UNCHANGED <<isRecording, mediaRecorderRef, videoBlob, uploading,
                            inflight>>
             /\ \A o \in Origins : pendingAcquire'[o] <= pendingAcquire[o]]_vars

\* A start that threw while an artifact was held.
C17_Witness ==
    /\ lastOp.op = "startRecording"
    /\ statusMessage = Msg("StartError", 0)
    /\ videoBlob # NoBlob
    /\ ~isRecording
    /\ ActiveRecorders = {}

\* C18: a recording session is only ever started on a stream whose tracks are
\* live: the stream of a recorder that starts has not had its tracks stopped.
C18_RecorderStartsOnLiveStream ==
    [][\A r \in Recorders :
         (recState[r] = "none" /\ recState'[r] = "recording")
            => recStream'[r] \in liveStreams']_vars

\* C19: the artifact produced by finalizing a recording session consists of
\* exactly the non-empty segments delivered to that session, in arrival order:
\* no segment of another session is in it and none of its own is missing.
C19_ArtifactIsOwnSegmentsInOrder ==
    [][\A r \in Recorders :
         (recState[r] # "inactive" /\ recState'[r] = "inactive")
            => videoBlob'.data = SelectSeq(delivered'[r], LAMBDA seg : seg.size > 0)]_vars

\* C20: the success branch of an upload discards only the artifact that was
\* uploaded (an artifact never written to storage is not cleared by it), and
\* the artifact held when an upload ends in failure is the one submitted.
C20_UploadTouchesOnlyItsArtifact ==
    [][\A u \in inflight :
         /\ (lastOp'.op = "uploadOk" /\ lastOp'.id = u.id)
               => videoBlob \in {NoBlob, u.blob}
         /\ (lastOp'.op = "uploadFail" /\ lastOp'.id = u.id)
               => videoBlob' = u.blob]_vars

====
